---- MODULE Spec2Model ----
(***************************************************************************)
(* Model of the two PRIME welcome broadcast scripts:                       *)
(*   emails/broadcast-prime-welcome.py  (Telegram Bot API, "telegram")     *)
(*   emails/send-prime-welcome.py       (SMTP, "email")                    *)
(* Both load recipients from pipe-delimited psql output, pick a template   *)
(* per language and send one message per recipient in a sequential loop.   *)
(*                                                                         *)
(* Text the loader parses is a sequence of one-character strings.  Text    *)
(* the classifier searches (error descriptions) is a sequence of words.    *)
(* Time is counted in ticks of 10 ms and advances only by time.sleep, so   *)
(* the clock is a lower bound of the elapsed wall time.                    *)
(***************************************************************************)
EXTENDS Integers, Sequences, FiniteSets, TLC

VARIABLES pipeline, stdout, users, nEnglish, nSpanish, pc, i,
          sent, failed, blocked, failures, req, e, retry_after,
          log, calls, clock, sleeps, session, logins, quits, summary

vars == <<pipeline, stdout, users, nEnglish, nSpanish, pc, i,
          sent, failed, blocked, failures, req, e, retry_after,
          log, calls, clock, sleeps, session, logins, quits, summary>>

\* ---------------------------------------------------------------- bounds
\* Largest number of lines in the query output.
MaxLines == 2

\* ------------------------------------------------------- program constants
\* One second, in clock ticks.
TicksPerSecond == 100
\* time.sleep(retry_after + 0.5): the 0.5 s margin, in ticks.
SafetyMargin == 50
\* time.sleep(0.08) between Telegram messages, in ticks.
PaceTelegram == 8
\* time.sleep(0.5) between emails, in ticks.
PaceEmail == 50
\* retry_after = 1 before the body is parsed.
InitialRetryAfter == 1
\* .get("retry_after", 5)
DefaultRetryAfter == 5

MSG_EN == "MSG_EN"
MSG_ES == "MSG_ES"
KEYBOARD_EN == "KEYBOARD_EN"
KEYBOARD_ES == "KEYBOARD_ES"
SUBJECT_EN == "SUBJECT_EN"
SUBJECT_ES == "SUBJECT_ES"
PLAIN_EN == "PLAIN_EN"
PLAIN_ES == "PLAIN_ES"
HTML_EN == "HTML_EN"
HTML_ES == "HTML_ES"

\* ------------------------------------------------------------ str methods
IsSpace(c) == c \in {" ", "\t", "\n"}

RECURSIVE LStrip(_)
LStrip(s) == IF s # <<>> /\ IsSpace(Head(s)) THEN LStrip(Tail(s)) ELSE s

RECURSIVE RStrip(_)
RStrip(s) ==
    IF s # <<>> /\ IsSpace(s[Len(s)]) THEN RStrip(SubSeq(s, 1, Len(s) - 1)) ELSE s

\* str.strip()
Strip(s) == RStrip(LStrip(s))

\* str.split(sep) for a one-character separator: never an empty list.
RECURSIVE Split(_, _)
Split(s, sep) ==
    IF \A k \in DOMAIN s : s[k] # sep
    THEN <<s>>
    ELSE LET p == CHOOSE k \in DOMAIN s :
                      s[k] = sep /\ \A j \in 1..(k - 1) : s[j] # sep
         IN  <<SubSeq(s, 1, p - 1)>> \o Split(SubSeq(s, p + 1, Len(s)), sep)

\* "@" in email
HasAt(s) == \E k \in DOMAIN s : s[k] = "@"

ES == <<"e", "s">>

\* ----------------------------------------------------------------- loader
\* The email loader without its "@" test.
ContactOKNoAt(p, contact) == contact # <<>>

\* The contact test of the two loaders: `if tg_id:` / `if email and "@" in email:`.
ContactOK(p, contact) ==
    IF p = "email" THEN contact # <<>> /\ HasAt(contact) ELSE contact # <<>>

\* One iteration of `for line in result.stdout.strip().split("\n")`:
\* the records the line appends to users (none or one).
ParseLine(p, line) ==
    IF Strip(line) = <<>>
    THEN <<>>
    ELSE LET parts == Split(line, "|")
         IN  IF Len(parts) >= 2 /\ ContactOK(p, Strip(parts[1]))
             THEN << [contact  |-> Strip(parts[1]),
                      lang     |-> Strip(parts[2]),
                      username |-> IF Len(parts) > 2 THEN Strip(parts[3]) ELSE <<>>] >>
             ELSE <<>>

RECURSIVE ParseLines(_, _)
ParseLines(p, lines) ==
    IF lines = <<>> THEN <<>>
    ELSE ParseLine(p, Head(lines)) \o ParseLines(p, Tail(lines))

LoadUsers(p, out) == ParseLines(p, Split(Strip(out), "\n"))

\* sum(1 for u in users if u['lang'] != 'es') and its complement
RECURSIVE CountLang(_, _)
CountLang(us, wantEs) ==
    IF us = <<>> THEN 0
    ELSE (IF (Head(us).lang = ES) = wantEs THEN 1 ELSE 0) + CountLang(Tail(us), wantEs)

\* ------------------------------------------------------ query output (input)
\* Lines psql can print for the two queries (-t -A -F "|"), and damaged
\* ones.  The Telegram query selects chat ids, the email query addresses.
SampleLines(p) ==
    (IF p = "email"
     THEN { <<"a", "@", "b", "|", "e", "s", "|", "a", "l">>,   \* a@b|es|al
            <<" ", "c", "@", "d", " ", "|", "E", "S">>,        \*  c@d |ES
            <<"7", "7", "|", "|", "b", "o">> }                 \* 77||bo
     ELSE { <<"7", "7", "|", "e", "s", "|", "a", "l">>,        \* 77|es|al
            <<" ", "8", "8", " ", "|">> })                     \*  88 |
    \cup { <<" ", "|", "e", "s", "|", "x">>,                   \*  |es|x
           <<"z", "z">>,                                       \* zz
           <<" ">> }                                           \* blank line

\* psql ends every row with a newline; a failed query prints nothing.
RECURSIVE JoinLines(_)
JoinLines(ls) == IF ls = <<>> THEN <<>> ELSE Head(ls) \o <<"\n">> \o JoinLines(Tail(ls))

LineSeqs(p) == UNION { [1..n -> SampleLines(p)] : n \in 0..MaxLines }

Outputs(p) == { JoinLines(ls) : ls \in LineSeqs(p) }

\* ------------------------------------------------------ template selection
\* is_es = lang == "es"
IsEs(u) == u.lang = ES

\* message = MSG_ES if is_es else MSG_EN
SelectMessage(is_es) == IF is_es THEN MSG_ES ELSE MSG_EN
\* The keyboard not following the language.
SelectKeyboardAlwaysEn(is_es) == KEYBOARD_EN

\* keyboard = KEYBOARD_ES if is_es else KEYBOARD_EN
SelectKeyboard(is_es) == IF is_es THEN KEYBOARD_ES ELSE KEYBOARD_EN
\* subject = SUBJECT_ES if is_es else SUBJECT_EN
SelectSubject(is_es) == IF is_es THEN SUBJECT_ES ELSE SUBJECT_EN
\* html = HTML_ES if is_es else HTML_EN
SelectHtml(is_es) == IF is_es THEN HTML_ES ELSE HTML_EN
\* plain = PLAIN_ES if is_es else PLAIN_EN
SelectPlain(is_es) == IF is_es THEN PLAIN_ES ELSE PLAIN_EN
\* tag = "ES" if is_es else "EN"
Tag(is_es) == IF is_es THEN "ES" ELSE "EN"

NoReq == [chat_id |-> <<>>, text |-> "", reply_markup |-> "",
          subject |-> "", plain |-> "", html |-> ""]

\* payload / req of the Telegram loop
TgRequest(u) ==
    [chat_id |-> u.contact, text |-> SelectMessage(IsEs(u)),
     reply_markup |-> SelectKeyboard(IsEs(u)),
     subject |-> "", plain |-> "", html |-> ""]

\* msg of the email loop
EmailMessage(u) ==
    [chat_id |-> u.contact, text |-> "", reply_markup |-> "",
     subject |-> SelectSubject(IsEs(u)), plain |-> SelectPlain(IsEs(u)),
     html |-> SelectHtml(IsEs(u))]

\* ------------------------------------------------- transport answers (input)
\* A value the JSON body holds under a key: absent, a string (words), a
\* number, an object (fields) or anything else (null, list, ...).
Missing == [t |-> "missing", v |-> <<>>, n |-> 0]
Str(w) == [t |-> "str", v |-> w, n |-> 0]
Num(k) == [t |-> "num", v |-> <<>>, n |-> k]
Other == [t |-> "other", v |-> <<>>, n |-> 0]

\* Body of an HTTP error answer.  form "text": not JSON; "jsonval": JSON that
\* is not an object; "object": a JSON object.  parameters "dict" means an
\* object whose retry_after is the field of that name.
TextBody(w) ==
    [form |-> "text", raw |-> w, description |-> Missing,
     parameters |-> "missing", retry_after |-> Missing]
JsonValBody(w) ==
    [form |-> "jsonval", raw |-> w, description |-> Missing,
     parameters |-> "missing", retry_after |-> Missing]
ObjBody(d, p, r) ==
    [form |-> "object", raw |-> <<>>, description |-> d,
     parameters |-> p, retry_after |-> r]
NoBody == TextBody(<<>>)

D_BLOCKED == <<"Forbidden", ":", "bot", "was", "blocked", "by", "the", "user">>
D_DEACTIVATED == <<"Forbidden", ":", "user", "is", "Deactivated">>
D_RATE == <<"Too", "Many", "Requests", ":", "retry", "after", "3">>
D_RATE_BLOCKED == <<"Too", "Many", "Requests", ":", "BLOCKED">>
D_NOT_FOUND == <<"Bad", "Request", ":", "chat", "not", "found">>

\* Server-supplied retry_after values (seconds); -1 makes time.sleep raise.
RetryAfterValues == {-1, 3}

Bodies ==
    { TextBody(<<"Bad", "Gateway">>),
      TextBody(<<"429", "Too", "Many", "Requests">>),
      JsonValBody(<<"[", "]">>),
      ObjBody(Missing, "missing", Missing),
      ObjBody(Other, "missing", Missing),
      ObjBody(Str(D_BLOCKED), "missing", Missing),
      ObjBody(Str(D_DEACTIVATED), "missing", Missing),
      ObjBody(Str(D_RATE_BLOCKED), "dict", Num(3)),
      ObjBody(Str(D_NOT_FOUND), "missing", Missing),
      ObjBody(Str(D_RATE), "missing", Missing),
      ObjBody(Str(D_RATE), "other", Missing),
      ObjBody(Str(D_RATE), "dict", Missing),
      ObjBody(Str(D_RATE), "dict", Other) }
    \cup { ObjBody(Str(D_RATE), "dict", Num(k)) : k \in RetryAfterValues }

\* What urlopen does: returns, raises HTTPError with a body, or raises
\* another exception (URLError, socket timeout).
OkAnswer == [kind |-> "ok", body |-> NoBody]
HttpError(b) == [kind |-> "http", body |-> b]
Timeout == [kind |-> "exc", body |-> NoBody]

FirstAnswers == {OkAnswer, Timeout} \cup { HttpError(b) : b \in Bodies }

RetryAnswers ==
    {OkAnswer, Timeout, HttpError(ObjBody(Str(D_RATE), "dict", Num(3)))}

\* str(e) of the exception
ErrStr(a) ==
    CASE a.kind = "http" -> <<"HTTP", "Error">>
      [] a.kind = "refused" -> <<"recipient", "refused">>
      [] a.kind = "lost" -> <<"please", "run", "connect()", "first">>
      [] OTHER -> <<"timed", "out">>

\* What server.sendmail does: returns, raises for this recipient only
\* (SMTPRecipientsRefused, ...), or raises because the connection is gone
\* (SMTPServerDisconnected), after which every later command raises too.
Refused == [kind |-> "refused", body |-> NoBody]
Disconnected == [kind |-> "lost", body |-> NoBody]

EmailAnswers(s) ==
    IF s = "lost" THEN {Disconnected} ELSE {OkAnswer, Refused, Disconnected}

\* --------------------------------------------------------- classification
\* str.lower(), word by word
LowerWord(w) ==
    CASE w = "BLOCKED" -> "blocked"
      [] w = "Deactivated" -> "deactivated"
      [] w = "Forbidden" -> "forbidden"
      [] w = "Too" -> "too"
      [] w = "Many" -> "many"
      [] w = "Requests" -> "requests"
      [] w = "Bad" -> "bad"
      [] w = "Request" -> "request"
      [] w = "Gateway" -> "gateway"
      [] OTHER -> w

Lower(s) == [k \in DOMAIN s |-> LowerWord(s[k])]

\* sub in s
Contains(s, sub) ==
    \E k \in 0..(Len(s) - Len(sub)) : SubSeq(s, k + 1, k + Len(sub)) = sub

\* try: desc = json.loads(body).get("description", "") / except: desc = body
Desc(body) ==
    IF body.form = "object"
    THEN IF body.description.t = "missing" THEN Str(<<>>) ELSE body.description
    ELSE Str(body.raw)

\* The unreachable test without .lower().
IsBlockedCaseSensitive(desc) ==
    Contains(desc, <<"blocked">>) \/ Contains(desc, <<"deactivated">>)

\* "blocked" in desc.lower() or "deactivated" in desc.lower()
IsBlocked(desc) ==
    Contains(Lower(desc), <<"blocked">>) \/ Contains(Lower(desc), <<"deactivated">>)

\* Every HTTP error that is not "blocked" taken for a rate limit.
IsRateLimitAny(desc) == TRUE

\* "Too Many Requests" in desc
IsRateLimit(desc) == Contains(desc, <<"Too", "Many", "Requests">>)

\* retry_after = 1
\* try: retry_after = json.loads(body).get("parameters", {}).get("retry_after", 5)
\* except: pass
RetryAfter(body) ==
    IF body.form # "object" THEN Num(InitialRetryAfter)
    ELSE IF body.parameters = "missing" THEN Num(DefaultRetryAfter)
    ELSE IF body.parameters = "other" THEN Num(InitialRetryAfter)
    ELSE IF body.retry_after.t = "missing" THEN Num(DefaultRetryAfter)
    ELSE body.retry_after

\* time.sleep(retry_after + 0.5) returns: the sum is a number and not negative.
CanSleep(ra) == ra.t = "num" /\ ra.n * TicksPerSecond + SafetyMargin >= 0

\* The sleep without the server-supplied part.
RateSleepTicksMarginOnly(ra) == SafetyMargin

\* the argument of that sleep, in ticks
RateSleepTicks(ra) == ra.n * TicksPerSecond + SafetyMargin

\* time.sleep(0.08) / time.sleep(0.5)
PaceTicks(p) == IF p = "email" THEN PaceEmail ELSE PaceTelegram

\* ------------------------------------------------------------ bookkeeping
LogLine(tag, contact, lang, reason, retry) ==
    [tag |-> tag, contact |-> contact, lang |-> lang, reason |-> reason, retry |-> retry]

Call(idx, r, a) ==
    [idx |-> idx, req |-> r, answer |-> a, at |-> clock,
     session |-> session, logins |-> logins, quits |-> quits]

NoSummary == [printed |-> FALSE, sent |-> 0, blocked |-> 0, failed |-> 0, failures |-> <<>>]

\* ------------------------------------------------------------------- Init
Init ==
    /\ pipeline \in {"telegram", "email"}
    /\ stdout \in Outputs(pipeline)
    /\ users = <<>>
    /\ nEnglish = 0
    /\ nSpanish = 0
    /\ pc = "load"
    /\ i = 0
    /\ sent = 0
    /\ failed = 0
    /\ blocked = 0
    /\ failures = <<>>
    /\ req = NoReq
    /\ e = OkAnswer
    /\ retry_after = Num(InitialRetryAfter)
    /\ log = <<>>
    /\ calls = <<>>
    /\ clock = 0
    /\ sleeps = <<>>
    /\ session = "none"
    /\ logins = 0
    /\ quits = 0
    /\ summary = NoSummary

\* The email sender leaving the loop without server.quit().
AfterLoopNoQuit(p) == "summary"

\* where control goes when `for i, user in enumerate(users)` starts or ends
AfterLoop(p) == IF p = "email" THEN "quit" ELSE "summary"

\* the first iteration, or the end of the loop when users is empty
LoopEntry(p, us) == IF Len(us) > 0 THEN "send" ELSE AfterLoop(p)

\* Parse the query output into users and print the per-language counts.
Load ==
    /\ pc = "load"
    /\ users' = LoadUsers(pipeline, stdout)
    /\ nEnglish' = CountLang(users', FALSE)
    /\ nSpanish' = CountLang(users', TRUE)
    /\ pc' = IF pipeline = "email" THEN "login" ELSE LoopEntry(pipeline, users')
    /\ UNCHANGED <<pipeline, stdout, i, sent, failed, blocked, failures, req, e,
                   retry_after, log, calls, clock, sleeps, session, logins, quits,
                   summary>>

\* server = smtplib.SMTP_SSL(...); server.login(...): not in a try, so a
\* failure ends the script.
Login ==
    /\ pc = "login"
    /\ logins' = logins + 1
    /\ \/ /\ session' = "loggedIn"
          /\ pc' = LoopEntry(pipeline, users)
       \/ /\ session' = "none"
          /\ pc' = "aborted"
    /\ UNCHANGED <<pipeline, stdout, users, nEnglish, nSpanish, i, sent, failed,
                   blocked, failures, req, e, retry_after, log, calls, clock,
                   sleeps, quits, summary>>

\* The bookkeeping of the loop, as a record the branches update.
Books ==
    [sent |-> sent, blocked |-> blocked, failed |-> failed, failures |-> failures,
     log |-> log, retry_after |-> retry_after, pc |-> "pace"]

\* sent += 1; print(... Sent to ...)
RecordSent(st, u, retry) ==
    [st EXCEPT !.sent = @ + 1,
               !.log = Append(@, LogLine("SENT", u.contact, Tag(IsEs(u)), <<>>, retry))]

\* blocked += 1; print([BLOCKED] ...)
RecordBlocked(st, u, desc) ==
    [st EXCEPT !.blocked = @ + 1,
               !.log = Append(@, LogLine("BLOCKED", u.contact, "", desc, FALSE))]

\* A failure printed and listed but not counted.
RecordFailedNoCount(st, u, reason, retry) ==
    [st EXCEPT !.failures = Append(@, [contact |-> u.contact, error |-> reason]),
               !.log = Append(@, LogLine("FAIL", u.contact, "", reason, retry))]

\* A failure counted and printed but not listed.
RecordFailedNoEntry(st, u, reason, retry) ==
    [st EXCEPT !.failed = @ + 1,
               !.log = Append(@, LogLine("FAIL", u.contact, "", reason, retry))]

\* failed += 1; failures.append({...}); print([FAIL] ...)
RecordFailed(st, u, reason, retry) ==
    [st EXCEPT !.failed = @ + 1,
               !.failures = Append(@, [contact |-> u.contact, error |-> reason]),
               !.log = Append(@, LogLine("FAIL", u.contact, "", reason, retry))]

\* retry_after = ...; print([RATE] Waiting ...)
RecordRateLimited(st, u, body) ==
    [st EXCEPT !.retry_after = RetryAfter(body),
               !.log = Append(@, LogLine("RATE", u.contact, "", <<>>, FALSE)),
               !.pc = "ratewait"]

\* The branches of the Telegram try/except once the first urlopen answered a.
TgOutcome(st, u, a) ==
    LET desc == Desc(a.body)
    IN  CASE a.kind = "ok" -> RecordSent(st, u, FALSE)
          [] a.kind = "exc" -> RecordFailed(st, u, ErrStr(a), FALSE)
          [] a.kind = "http" /\ desc.t # "str" ->
               \* desc.lower() raises inside the except block
               [st EXCEPT !.pc = "aborted"]
          [] a.kind = "http" /\ desc.t = "str" /\ IsBlocked(desc.v) ->
               RecordBlocked(st, u, desc.v)
          [] a.kind = "http" /\ desc.t = "str" /\ ~IsBlocked(desc.v)
                             /\ IsRateLimit(desc.v) ->
               RecordRateLimited(st, u, a.body)
          [] OTHER -> RecordFailed(st, u, desc.v, FALSE)

\* The bookkeeping variables take the values of st.
Keep(st) ==
    /\ sent' = st.sent
    /\ blocked' = st.blocked
    /\ failed' = st.failed
    /\ failures' = st.failures
    /\ log' = st.log
    /\ retry_after' = st.retry_after
    /\ pc' = st.pc

\* Loop body of the Telegram broadcast up to the end of the first try/except,
\* or up to the rate-limit sleep.
TgSend ==
    /\ pc = "send"
    /\ pipeline = "telegram"
    /\ LET u == users[i + 1]
           r == TgRequest(u)
       IN  \E a \in FirstAnswers :
             /\ req' = r
             /\ e' = a
             /\ calls' = Append(calls, Call(i, r, a))
             /\ Keep(TgOutcome(Books, u, a))
    /\ UNCHANGED <<pipeline, stdout, users, nEnglish, nSpanish, i, clock, sleeps,
                   session, logins, quits, summary>>

\* time.sleep(retry_after + 0.5); raises (outside any try) when the sum is
\* not a number or is negative.
TgRateSleep ==
    /\ pc = "ratewait"
    /\ IF CanSleep(retry_after)
       THEN /\ clock' = clock + RateSleepTicks(retry_after)
            /\ sleeps' = Append(sleeps, [kind |-> "rate", after |-> i, at |-> clock,
                                         dur |-> RateSleepTicks(retry_after)])
            /\ pc' = "retry"
       ELSE /\ pc' = "aborted"
            /\ UNCHANGED <<clock, sleeps>>
    /\ UNCHANGED <<pipeline, stdout, users, nEnglish, nSpanish, i, sent, failed,
                   blocked, failures, req, e, retry_after, log, calls, session,
                   logins, quits, summary>>

\* The second urlopen(req) and its try/except Exception.
TgRetry ==
    /\ pc = "retry"
    /\ LET u == users[i + 1]
       IN  \E a \in RetryAnswers :
             /\ calls' = Append(calls, Call(i, req, a))
             /\ Keep(IF a.kind = "ok" THEN RecordSent(Books, u, TRUE)
                     ELSE RecordFailed(Books, u, ErrStr(a), TRUE))
    /\ UNCHANGED <<pipeline, stdout, users, nEnglish, nSpanish, i, req, e, clock,
                   sleeps, session, logins, quits, summary>>

\* Loop body of the email sender up to the end of its try/except.
EmailSend ==
    /\ pc = "send"
    /\ pipeline = "email"
    /\ LET u == users[i + 1]
           m == EmailMessage(u)
       IN  \E a \in EmailAnswers(session) :
             /\ req' = m
             /\ e' = a
             /\ calls' = Append(calls, Call(i, m, a))
             /\ session' = IF a.kind = "lost" THEN "lost" ELSE session
             /\ Keep(IF a.kind = "ok" THEN RecordSent(Books, u, FALSE)
                     ELSE RecordFailed(Books, u, ErrStr(a), FALSE))
    /\ UNCHANGED <<pipeline, stdout, users, nEnglish, nSpanish, i, clock, sleeps,
                   logins, quits, summary>>

\* The pacing sleep after every recipient, the last included.
ShouldPaceAlways(idx, us) == TRUE

\* if i < len(users) - 1
ShouldPace(idx, us) == idx < Len(us) - 1

\* The pacing sleep, then the next iteration or the end of the loop.
Pace ==
    /\ pc = "pace"
    /\ IF ShouldPace(i, users)
       THEN /\ clock' = clock + PaceTicks(pipeline)
            /\ sleeps' = Append(sleeps, [kind |-> "pace", after |-> i, at |-> clock,
                                         dur |-> PaceTicks(pipeline)])
       ELSE UNCHANGED <<clock, sleeps>>
    /\ IF i + 1 < Len(users)
       THEN /\ i' = i + 1
            /\ pc' = "send"
       ELSE /\ pc' = AfterLoop(pipeline)
            /\ UNCHANGED i
    /\ UNCHANGED <<pipeline, stdout, users, nEnglish, nSpanish, sent, failed,
                   blocked, failures, req, e, retry_after, log, calls, session,
                   logins, quits, summary>>

\* server.quit(): not in a try; raises when the connection is already gone,
\* and may raise when the server stops answering.
Quit ==
    /\ pc = "quit"
    /\ quits' = quits + 1
    /\ session' = "closed"
    /\ \/ /\ session = "loggedIn"
          /\ pc' = "summary"
       \/ pc' = "aborted"
    /\ UNCHANGED <<pipeline, stdout, users, nEnglish, nSpanish, i, sent, failed,
                   blocked, failures, req, e, retry_after, log, calls, clock,
                   sleeps, logins, summary>>

\* print(f"Done! Sent: ...") and the itemized failure list
Summary ==
    /\ pc = "summary"
    /\ summary' = [printed |-> TRUE, sent |-> sent, blocked |-> blocked,
                   failed |-> failed, failures |-> failures]
    /\ pc' = "done"
    /\ UNCHANGED <<pipeline, stdout, users, nEnglish, nSpanish, i, sent, failed,
                   blocked, failures, req, e, retry_after, log, calls, clock,
                   sleeps, session, logins, quits>>

Next ==
    \/ Load
    \/ Login
    \/ TgSend
    \/ TgRateSleep
    \/ TgRetry
    \/ EmailSend
    \/ Pace
    \/ Quit
    \/ Summary

Spec == Init /\ [][Next]_vars

\* The loader alone, applied to every query output.
LoaderNext == Load

LoaderSpec == Init /\ [][LoaderNext]_vars

\* ===================================================================
\* Properties
\* ===================================================================
IsBucket(l) == l.tag \in {"SENT", "BLOCKED", "FAIL"}

\* The console lines that put a recipient in a bucket, in print order.
BucketLines == SelectSeq(log, IsBucket)

CountTag(t) == Cardinality({k \in DOMAIN log : log[k].tag = t})

Total == sent + blocked + failed

\* The positions in calls of the transport calls made for recipient idx.
CallsTo(idx) == {k \in DOMAIN calls : calls[k].idx = idx}

\* A call that repeats the call before it for the same recipient.
IsRetryCall(k) == k > 1 /\ calls[k].idx = calls[k - 1].idx

\* Recipient idx (0-based) has been put in a bucket.
Handled(idx) == Len(BucketLines) > idx

InLoopBefore == pc \in {"send", "ratewait", "retry"}
LoopOver == pc \in {"quit", "summary", "done"}

\* C1: every handled recipient is in exactly one bucket: the counters sum to
\* i before the i-th recipient (0-based) is bucketed and to i + 1 after, one
\* console line per handled recipient in recipient order, each counter equal
\* to the number of lines of its kind, and sent + blocked + failed equal to
\* the number of recipients once the loop is over and in the summary.
C1_OneBucketEach ==
    /\ InLoopBefore => Total = i
    /\ pc = "pace" => Total = i + 1
    /\ LoopOver => Total = Len(users)
    /\ summary.printed =>
          summary.sent + summary.blocked + summary.failed = Len(users)
    /\ pipeline = "email" => blocked = 0
    /\ Len(BucketLines) = Total
    /\ Total <= Len(users)
    /\ \A k \in DOMAIN BucketLines : BucketLines[k].contact = users[k].contact
    /\ sent = CountTag("SENT")
    /\ blocked = CountTag("BLOCKED")
    /\ failed = CountTag("FAIL")

C1_Witness ==
    /\ pipeline = "telegram"
    /\ pc = "done"
    /\ Len(users) = 2
    /\ blocked = 1
    /\ failed = 1
    /\ \E k \in DOMAIN calls : IsRetryCall(k)

\* C2: a per-recipient delivery failure never aborts the batch: the script
\* stops early only when the SMTP login fails, never once the loop has
\* started, whatever the transport answers to a send.
C2_NeverAborts ==
    pc = "aborted" => pipeline = "email" /\ calls = <<>> /\ quits = 0

\* The answer carries the rate-limit signal in its description.
RateLimitAnswer(a) ==
    /\ a.kind = "http"
    /\ Desc(a.body).t = "str"
    /\ Contains(Desc(a.body).v, <<"Too", "Many", "Requests">>)

\* The answer reports the recipient unreachable.
UnreachableAnswer(a) ==
    /\ a.kind = "http"
    /\ Desc(a.body).t = "str"
    /\ \E k \in DOMAIN Desc(a.body).v :
          LowerWord(Desc(a.body).v[k]) \in {"blocked", "deactivated"}

\* C3: at most two transport calls per recipient; a second call only after
\* a first answer whose description contains "Too Many Requests"; a handled
\* recipient whose first answer was a rate limit (and not "blocked") got
\* exactly two calls; a failed retry puts the recipient in Failed, once.
C3_RetryOnce ==
    pipeline = "telegram" =>
      /\ \A idx \in 0..(Len(users) - 1) : Cardinality(CallsTo(idx)) <= 2
      /\ \A k \in DOMAIN calls :
            IsRetryCall(k) =>
              /\ RateLimitAnswer(calls[k - 1].answer)
              /\ ~IsRetryCall(k - 1)
              /\ (Handled(calls[k].idx) /\ calls[k].answer.kind # "ok") =>
                    /\ BucketLines[calls[k].idx + 1].tag = "FAIL"
                    /\ BucketLines[calls[k].idx + 1].retry
      /\ \A k \in DOMAIN calls :
            ( /\ ~IsRetryCall(k)
              /\ RateLimitAnswer(calls[k].answer)
              /\ ~UnreachableAnswer(calls[k].answer)
              /\ Handled(calls[k].idx) ) =>
                 Cardinality(CallsTo(calls[k].idx)) = 2
      /\ failed = Len(failures)

C3_Witness ==
    /\ pipeline = "telegram"
    /\ pc = "done"
    /\ Len(users) = 1
    /\ Len(calls) = 2
    /\ RateLimitAnswer(calls[1].answer)
    /\ RateLimitAnswer(calls[2].answer)
    /\ failed = 1
    /\ Len(failures) = 1

C4_BlockedStep ==
    (pc = "send" /\ pipeline = "telegram" /\ Len(calls') = Len(calls) + 1
       /\ UnreachableAnswer(calls'[Len(calls')].answer)) =>
         /\ blocked' = blocked + 1
         /\ sent' = sent
         /\ failed' = failed
         /\ failures' = failures
         /\ pc' = "pace"

C4_NoSecondCall ==
    pipeline = "telegram" =>
      \A k \in DOMAIN calls :
         (~IsRetryCall(k) /\ UnreachableAnswer(calls[k].answer)) =>
            /\ CallsTo(calls[k].idx) = {k}
            /\ Handled(calls[k].idx)
            /\ BucketLines[calls[k].idx + 1].tag = "BLOCKED"

\* C4: when the first answer reports the recipient unreachable ("blocked" or
\* "deactivated" in the description, in any case), that step adds one to
\* blocked, leaves sent, failed and the failure list alone and goes on to the
\* pacing; the recipient gets no second call, also when the description
\* carries "Too Many Requests" as well.
C4_Blocked == [][C4_BlockedStep]_vars /\ []C4_NoSecondCall

C4_Witness ==
    /\ pipeline = "telegram"
    /\ pc = "pace"
    /\ Len(calls) = 1
    /\ UnreachableAnswer(calls[1].answer)
    /\ RateLimitAnswer(calls[1].answer)
    /\ blocked = 1
    /\ sent = 0
    /\ failed = 0

\* The answer carries a numeric parameters.retry_after.
ServerRetryAfter(a) ==
    a.kind = "http" /\ a.body.form = "object" /\ a.body.parameters = "dict"
       /\ a.body.retry_after.t = "num"

\* C5: a retry never starts before retry_after seconds (the value the server
\* supplied in parameters.retry_after) have passed since the rate-limit
\* answer: the sleep between them lasts retry_after plus a positive margin;
\* a retry that succeeds counts the recipient as sent, not as failed (one
\* recipient: sent = 1, failed = 0, blocked = 0, no failure entry).
C5_PauseBeforeRetry ==
    pipeline = "telegram" =>
      \A k \in DOMAIN calls :
         IsRetryCall(k) =>
           /\ ServerRetryAfter(calls[k - 1].answer) =>
                /\ calls[k].at - calls[k - 1].at
                      >= calls[k - 1].answer.body.retry_after.n * TicksPerSecond
                /\ \E j \in DOMAIN sleeps :
                      /\ sleeps[j].kind = "rate"
                      /\ sleeps[j].after = calls[k].idx
                      /\ sleeps[j].at = calls[k - 1].at
                      /\ sleeps[j].dur
                            > calls[k - 1].answer.body.retry_after.n * TicksPerSecond
           /\ (calls[k].answer.kind = "ok" /\ Handled(calls[k].idx)) =>
                /\ BucketLines[calls[k].idx + 1].tag = "SENT"
                /\ (Len(users) = 1 =>
                      sent = 1 /\ failed = 0 /\ blocked = 0 /\ failures = <<>>)

C5_Witness ==
    /\ pipeline = "telegram"
    /\ pc = "done"
    /\ Len(users) = 1
    /\ Len(calls) = 2
    /\ ServerRetryAfter(calls[1].answer)
    /\ calls[1].answer.body.retry_after.n = 3
    /\ calls[2].answer.kind = "ok"
    /\ calls[2].at >= 3 * TicksPerSecond
    /\ sent = 1

PaceSleeps == SelectSeq(sleeps, LAMBDA z : z.kind = "pace")

\* C6: the pacing sleep follows every recipient but the last, whatever its
\* outcome: the k-th pacing sleep comes after recipient k - 1 (0-based) was
\* bucketed and all its calls were made, and before the first call to
\* recipient k; there are as many as the loop has moved on, max(0, N - 1)
\* once the loop is over, each of the fixed length.
C6_Pacing ==
    /\ Len(PaceSleeps) = i
    /\ LoopOver => Len(PaceSleeps) = (IF Len(users) = 0 THEN 0 ELSE Len(users) - 1)
    /\ Len(PaceSleeps) <= (IF Len(users) = 0 THEN 0 ELSE Len(users) - 1)
    /\ \A k \in DOMAIN PaceSleeps :
          /\ PaceSleeps[k].after = k - 1
          /\ PaceSleeps[k].dur = PaceTicks(pipeline)
          /\ Handled(k - 1)
          /\ CallsTo(k - 1) # {}
          /\ \A c \in DOMAIN calls :
                /\ calls[c].idx <= k - 1 => calls[c].at <= PaceSleeps[k].at
                /\ calls[c].idx >= k =>
                      calls[c].at >= PaceSleeps[k].at + PaceSleeps[k].dur

C6_Witness ==
    /\ pipeline = "telegram"
    /\ pc = "done"
    /\ Len(users) = 2
    /\ Len(PaceSleeps) = 1
    /\ BucketLines[1].tag = "BLOCKED"
    /\ BucketLines[2].tag = "FAIL"

\* C7: the email sender logs in once, before any send; every sendmail call
\* is made on that session after the login and before quit; quit is called
\* once, after the last recipient was handled, also when sends failed; the
\* summary is printed only after quit.
C7_SessionLifecycle ==
    pipeline = "email" =>
      /\ logins <= 1
      /\ quits <= 1
      /\ \A k \in DOMAIN calls :
            /\ calls[k].logins = 1
            /\ calls[k].quits = 0
            /\ calls[k].session \in {"loggedIn", "lost"}
      /\ quits = 1 => logins = 1 /\ Total = Len(users) /\ session = "closed"
      /\ pc \in {"summary", "done"} => quits = 1
      /\ (pc = "aborted" /\ session # "none") => quits = 1
      /\ pc \in {"send", "pace", "quit"} => logins = 1 /\ quits = 0

C7_Witness ==
    /\ pipeline = "email"
    /\ pc = "done"
    /\ Len(calls) = 2
    /\ failed = 1
    /\ sent = 1
    /\ quits = 1
    /\ logins = 1

\* The lines of the query output: the text between newlines.
InputLines ==
    IF stdout = <<>> THEN <<>>
    ELSE LET pieces == Split(stdout, "\n")
         IN  SubSeq(pieces, 1, Len(pieces) - 1)

\* The position of the k-th "|" of line, or Len(line) + 1 when there is none.
PipeAt(line, k) ==
    LET ps == {q \in DOMAIN line :
                 line[q] = "|" /\ Cardinality({j \in 1..q : line[j] = "|"}) = k}
    IN  IF ps = {} THEN Len(line) + 1 ELSE CHOOSE q \in ps : TRUE

\* The text from position a to position b without the blanks around it.
Trimmed(line, a, b) ==
    LET ink == {q \in a..b : ~IsSpace(line[q])}
    IN  IF ink = {} THEN <<>>
        ELSE SubSeq(line, CHOOSE q \in ink : \A j \in ink : q <= j,
                          CHOOSE q \in ink : \A j \in ink : q >= j)

\* A row with at least two fields, a contact that is not blank and, for the
\* email sender, holds an "@".
WellFormed(p, line) ==
    /\ \E q \in DOMAIN line : line[q] = "|"
    /\ Trimmed(line, 1, PipeAt(line, 1) - 1) # <<>>
    /\ p = "email" => \E q \in 1..(PipeAt(line, 1) - 1) : line[q] = "@"

\* The record of a well-formed row.
RecordOf(line) ==
    [contact  |-> Trimmed(line, 1, PipeAt(line, 1) - 1),
     lang     |-> Trimmed(line, PipeAt(line, 1) + 1, PipeAt(line, 2) - 1),
     username |-> Trimmed(line, PipeAt(line, 2) + 1, PipeAt(line, 3) - 1)]

WellFormedLines == SelectSeq(InputLines, LAMBDA l : WellFormed(pipeline, l))

C8_Loaded ==
    /\ Len(users) = Len(WellFormedLines)
    /\ \A k \in DOMAIN users : users[k] = RecordOf(WellFormedLines[k])
    /\ Len(users) <= Len(InputLines)
    /\ stdout = <<>> => users = <<>>

\* C8: once loaded, users holds one record for each well-formed line of the
\* query output and nothing else, in the order of the lines; it is never
\* longer than the output has lines and is empty for an empty output.
C8_Loader == pc # "load" => C8_Loaded

C8_Witness ==
    /\ pipeline = "email"
    /\ pc # "load"
    /\ Len(InputLines) = 2
    /\ Len(users) = 1
    /\ ~HasAt(InputLines[1])
    /\ \E q \in DOMAIN InputLines[1] : InputLines[1][q] = "|"
    /\ Len(InputLines[1]) > 2
    /\ Trimmed(InputLines[1], 1, PipeAt(InputLines[1], 1) - 1) # <<>>

\* C9: every message sent, retries included, carries all its parts in
\* Spanish when the recipient's language is exactly "es" and all its parts
\* in English otherwise; the two counts printed before sending add up to the
\* number of recipients.
C9_Templates ==
    /\ \A k \in DOMAIN calls :
          LET u == users[calls[k].idx + 1]
              r == calls[k].req
          IN  /\ r.chat_id = u.contact
              /\ IF u.lang = <<"e", "s">>
                 THEN IF pipeline = "telegram"
                      THEN r.text = MSG_ES /\ r.reply_markup = KEYBOARD_ES
                      ELSE r.subject = SUBJECT_ES /\ r.plain = PLAIN_ES
                              /\ r.html = HTML_ES
                 ELSE IF pipeline = "telegram"
                      THEN r.text = MSG_EN /\ r.reply_markup = KEYBOARD_EN
                      ELSE r.subject = SUBJECT_EN /\ r.plain = PLAIN_EN
                              /\ r.html = HTML_EN
    /\ pc # "load" =>
          /\ nEnglish + nSpanish = Len(users)
          /\ nSpanish = Cardinality({k \in DOMAIN users : users[k].lang = <<"e", "s">>})

C9_Witness ==
    /\ pipeline = "telegram"
    /\ Len(calls) = 3
    /\ IsRetryCall(2)
    /\ calls[2].req.text = MSG_ES
    /\ calls[2].req.reply_markup = KEYBOARD_ES
    /\ users[2].lang = <<>>
    /\ calls[3].req.text = MSG_EN
    /\ nSpanish = 1
    /\ nEnglish = 1

FailLines == SelectSeq(log, LAMBDA l : l.tag = "FAIL")

\* An answer that is an error, but neither a rate limit nor "unreachable".
PlainError(a) ==
    /\ a.kind # "ok"
    /\ ~RateLimitAnswer(a)
    /\ ~UnreachableAnswer(a)
    /\ a.kind = "http" => Desc(a.body).t = "str"

\* C10: the failure list has as many entries as the failed counter counts,
\* one (contact, reason) per recipient printed as failed, in that order, so
\* no recipient printed as sent or blocked is in it; an error that is neither
\* a rate limit nor "unreachable" puts the recipient in the list after a
\* single call.
C10_FailureList ==
    /\ Len(failures) = failed
    /\ Len(failures) = Len(FailLines)
    /\ \A k \in DOMAIN failures :
          /\ k <= Len(FailLines)
          /\ failures[k] = [contact |-> FailLines[k].contact,
                            error |-> FailLines[k].reason]
    /\ summary.printed => summary.failures = failures /\ summary.failed = failed
    /\ \A k \in DOMAIN calls :
          (~IsRetryCall(k) /\ PlainError(calls[k].answer)) =>
             /\ CallsTo(calls[k].idx) = {k}
             /\ Handled(calls[k].idx)
             /\ BucketLines[calls[k].idx + 1].tag = "FAIL"
             /\ \E j \in DOMAIN failures :
                   failures[j].contact = users[calls[k].idx + 1].contact

C10_Witness ==
    /\ pipeline = "telegram"
    /\ pc = "done"
    /\ Len(users) = 2
    /\ failed = 2
    /\ Len(failures) = 2
    /\ Len(calls) = 3
    /\ IsRetryCall(3)
    /\ calls[1].answer.kind = "exc"

====
